---- MODULE Spec2Model ----
(***************************************************************************)
(* A model of sentsem.py: the sentence similarity measure sentsem(sent1,   *)
(* sent2).  Sentences are character sequences.  The NLTK / WordNet / numpy *)
(* collaborators are modelled by what they compute on a miniature lexicon. *)
(***************************************************************************)
EXTENDS Naturals, Integers, Sequences, FiniteSets, TLC

(* Largest number of whitespace separated chunks in an input sentence. *)
MaxLen == 2


(***************************************************************************)
(* Characters and the input sentences.                                      *)
(***************************************************************************)
UpperAlpha == <<"A","B","C","D","E","F","G","H","I","J","K","L","M",
                "N","O","P","Q","R","S","T","U","V","W","X","Y","Z">>
LowerAlpha == <<"a","b","c","d","e","f","g","h","i","j","k","l","m",
                "n","o","p","q","r","s","t","u","v","w","x","y","z">>

RangeOf(f) == { f[i] : i \in DOMAIN f }

(* The chunks the input sentences are built from. *)
Chunks == { <<"T","h","e">>,
            <<"D","o","g","s",",">>,
            <<"c","a","t">>,
            <<"r","a","n">>,
            <<"q","u","i","c","k">>,
            <<"x","y","z">> }

RECURSIVE Join(_)
Join(cs) ==
    IF cs = <<>> THEN <<>>
    ELSE IF Len(cs) = 1 THEN cs[1]
    ELSE cs[1] \o <<" ">> \o Join(Tail(cs))

Sentences == { Join(cs) : cs \in UNION { [1..n -> Chunks] : n \in 0..MaxLen } }

(***************************************************************************)
(* Step 1: str.lower()                                                      *)
(***************************************************************************)
LowerCh(c) ==
    IF \E i \in DOMAIN UpperAlpha : UpperAlpha[i] = c
    THEN LowerAlpha[CHOOSE i \in DOMAIN UpperAlpha : UpperAlpha[i] = c]
    ELSE c

(* A sentence left as the caller passed it. *)
lowerUnchanged(s) == s

lower(s) == [i \in 1..Len(s) |-> LowerCh(s[i])]

(***************************************************************************)
(* Step 2: RegexpTokenizer(r'\w+').tokenize: the maximal runs of word       *)
(* characters, in order.                                                    *)
(***************************************************************************)
IsWordChar(c) ==
    \/ c \in RangeOf(UpperAlpha)
    \/ c \in RangeOf(LowerAlpha)
    \/ c \in {"0","1","2","3","4","5","6","7","8","9","_"}

RECURSIVE Scan(_, _, _, _)
Scan(s, i, cur, acc) ==
    LET flushed == IF cur = <<>> THEN acc ELSE Append(acc, cur) IN
    IF i > Len(s) THEN flushed
    ELSE IF IsWordChar(s[i]) THEN Scan(s, i + 1, Append(cur, s[i]), acc)
    ELSE Scan(s, i + 1, <<>>, flushed)

tokenize(s) == Scan(s, 1, <<>>, <<>>)

(***************************************************************************)
(* Step 3: stopword removal ("word not in stopwords").                      *)
(***************************************************************************)
stopwords == { <<"t","h","e">>, <<"a">>, <<"a","n">>, <<"o","f">>, <<"i","s">> }

RECURSIVE Filter(_, _)
Filter(seq, keep) ==
    IF seq = <<>> THEN <<>>
    ELSE IF seq[1] \in keep THEN <<seq[1]>> \o Filter(Tail(seq), keep)
    ELSE Filter(Tail(seq), keep)

RemoveStopwords(tokens) ==
    Filter(tokens, RangeOf(tokens) \ stopwords)

(***************************************************************************)
(* Step 4: nltk.pos_tag and pos(tag).                                       *)
(***************************************************************************)
StartsWith(tag, prefix) ==
    /\ Len(tag) >= Len(prefix)
    /\ SubSeq(tag, 1, Len(prefix)) = prefix

(* wn.NOUN, wn.VERB, wn.ADJ, wn.ADV, wn.ADJ_SAT *)
NOUN == "n"
VERB == "v"
ADJ == "a"
ADV == "r"
ADJ_SAT == "s"

pos(tag) ==
    IF StartsWith(tag, <<"N">>) \/ tag = <<"M","D">> THEN NOUN
    ELSE IF StartsWith(tag, <<"J">>) THEN ADJ
    ELSE IF StartsWith(tag, <<"V">>) THEN VERB
    ELSE IF StartsWith(tag, <<"R","B">>) THEN ADV
    ELSE ""

(* The tagger on the miniature lexicon (Penn Treebank tags). *)
TagOf(w) ==
    CASE w = <<"d","o","g","s">> -> <<"N","N","S">>
      [] w = <<"D","o","g","s">> -> <<"N","N","P","S">>
      [] w = <<"c","a","t">> -> <<"N","N">>
      [] w = <<"r","a","n">> -> <<"V","B","D">>
      [] w = <<"q","u","i","c","k">> -> <<"J","J">>
      [] w = <<"t","h","e">> -> <<"D","T">>
      [] w = <<"T","h","e">> -> <<"D","T">>
      [] w = <<"x","y","z">> -> <<"F","W">>
      [] OTHER -> <<"N","N">>

pos_tag(tokens) == [i \in 1..Len(tokens) |-> <<tokens[i], TagOf(tokens[i])>>]

(***************************************************************************)
(* The miniature WordNet: index entries (form, index part of speech) and   *)
(* their synsets.  Satellite adjectives live in the adjective index but    *)
(* report pos() = 's'.                                                      *)
(***************************************************************************)
Synset(n, p, r) == [name |-> n, pos |-> p, rank |-> r]

cat_n_01 == Synset("cat.n.01", NOUN, 2)
dog_n_01 == Synset("dog.n.01", NOUN, 4)
feline_n_01 == Synset("feline.n.01", NOUN, 5)
canine_n_02 == Synset("canine.n.02", NOUN, 1)
carnivore_n_01 == Synset("carnivore.n.01", NOUN, 3)
run_v_01 == Synset("run.v.01", VERB, 8)
quick_s_01 == Synset("quick.s.01", ADJ_SAT, 6)
quick_s_04 == Synset("quick.s.04", ADJ_SAT, 7)

(* Python's None where a synset is expected. *)
None == Synset("None", "", 0)

IndexPos == <<NOUN, VERB, ADJ, ADV>>

Index(form, p) ==
    CASE form = <<"c","a","t">> /\ p = NOUN -> {cat_n_01}
      [] form = <<"d","o","g">> /\ p = NOUN -> {dog_n_01}
      [] form = <<"r","u","n">> /\ p = VERB -> {run_v_01}
      [] form = <<"q","u","i","c","k">> /\ p = ADJ -> {quick_s_01, quick_s_04}
      [] OTHER -> {}

(* The words of a synset's definition(). *)
Definition(ss) ==
    CASE ss = quick_s_01 -> {"done", "in", "a", "short", "time"}
      [] ss = quick_s_04 -> {"easily", "aroused", "or", "excited"}
      [] ss = cat_n_01 -> {"feline", "mammal"}
      [] ss = dog_n_01 -> {"a", "member", "of", "the", "genus", "canis"}
      [] OTHER -> {"move", "fast"}

Hypernym(ss) ==
    CASE ss = cat_n_01 -> {feline_n_01}
      [] ss = feline_n_01 -> {carnivore_n_01}
      [] ss = dog_n_01 -> {canine_n_02}
      [] ss = canine_n_02 -> {carnivore_n_01}
      [] OTHER -> {}

(***************************************************************************)
(* WordNet morphy and Step 5: WordNetLemmatizer.lemmatize(word, pos).       *)
(***************************************************************************)
ExceptionForms(form, p) ==
    IF form = <<"r","a","n">> /\ p = VERB THEN {<<"r","u","n">>} ELSE {}

Detached(form, p) ==
    IF /\ p \in {NOUN, VERB}
       /\ Len(form) > 1
       /\ form[Len(form)] = "s"
    THEN {SubSeq(form, 1, Len(form) - 1)}
    ELSE {}

morphy(form, p) ==
    { f \in {form} \cup ExceptionForms(form, p) \cup Detached(form, p) :
        Index(f, p) # {} }

NoHint == "default"

(* lemmatize(word, pos='n'): the shortest morphy form, else the word itself. *)
lemmatize(word, hint) ==
    LET p == IF hint = NoHint THEN NOUN ELSE hint
        lemmas == morphy(word, p)
    IN IF lemmas = {} THEN word
       ELSE CHOOSE f \in lemmas : \A g \in lemmas : Len(f) <= Len(g)

(***************************************************************************)
(* Step 6 collaborator: nltk.wsd.lesk(context_sentence, word, pos).  The   *)
(* context is iterated, so a string context is the set of its characters.  *)
(***************************************************************************)
synsets(word) ==
    UNION { Index(f, IndexPos[i]) :
              f \in UNION { morphy(word, IndexPos[j]) : j \in DOMAIN IndexPos },
              i \in DOMAIN IndexPos }

Overlap(context, ss) == Cardinality(RangeOf(context) \cap Definition(ss))

lesk(context, word, p) ==
    LET all == synsets(word)
        cands == IF p # "" THEN { ss \in all : ss.pos = p } ELSE all
        Better(a, b) ==
            \/ Overlap(context, a) > Overlap(context, b)
            \/ Overlap(context, a) = Overlap(context, b) /\ a.rank >= b.rank
    IN IF cands = {} THEN None
       ELSE CHOOSE ss \in cands : \A t \in cands : Better(ss, t)

(***************************************************************************)
(* Exact fractions <<numerator, denominator>> stand for the floats.         *)
(***************************************************************************)
RECURSIVE GCD(_, _)
GCD(a, b) == IF b = 0 THEN a ELSE GCD(b, a % b)

Norm(n, d) == IF n = 0 THEN <<0, 1>> ELSE <<n \div GCD(n, d), d \div GCD(n, d)>>

Zero == <<0, 1>>

(* path_similarity's None: no fraction has denominator 0. *)
Undefined == <<0, 0>>

FAdd(x, y) == Norm(x[1] * y[2] + y[1] * x[2], x[2] * y[2])
FLeq(x, y) == x[1] * y[2] <= y[1] * x[2]

(***************************************************************************)
(* Synset.path_similarity(other): 1 / (1 + shortest path distance), None   *)
(* when no path joins the two synsets.  Called on None, or with None, it   *)
(* raises AttributeError.                                                   *)
(***************************************************************************)
RECURSIVE Ancestors(_, _)
Ancestors(ss, d) ==
    {<<ss, d>>} \cup UNION { Ancestors(h, d + 1) : h \in Hypernym(ss) }

PathDistances(a, b) ==
    { z[1][2] + z[2][2] :
        z \in { y \in Ancestors(a, 0) \X Ancestors(b, 0) : y[1][1] = y[2][1] } }

path_similarity(a, b) ==
    LET dists == PathDistances(a, b)
    IN IF dists = {} THEN Undefined
       ELSE <<1, (CHOOSE d \in dists : \A e \in dists : d <= e) + 1>>

PathSimilarityRaises(a, b) == a = None \/ b = None

(***************************************************************************)
(* numpy: ndarray.max(axis) and the builtin sum.  A reduction along an     *)
(* axis of length 0 raises ValueError.                                      *)
(***************************************************************************)
RECURSIVE MaxOf(_)
MaxOf(xs) ==
    IF Len(xs) = 1 THEN xs[1]
    ELSE LET m == MaxOf(Tail(xs)) IN IF FLeq(m, xs[1]) THEN xs[1] ELSE m

RECURSIVE sum(_)
sum(xs) == IF xs = <<>> THEN Zero ELSE FAdd(xs[1], sum(Tail(xs)))

(* max(axis=1): one maximum per row. *)
RowMax(m) == [i \in 1..m.rows |-> MaxOf([j \in 1..m.cols |-> m.cell[<<i, j>>]])]
RowMaxRaises(m) == m.cols = 0

(* max(axis=0): one maximum per column. *)
ColMax(m) == [j \in 1..m.cols |-> MaxOf([i \in 1..m.rows |-> m.cell[<<i, j>>]])]
ColMaxRaises(m) == m.rows = 0

(***************************************************************************)
(* The body of sentsem, step by step.                                       *)
(***************************************************************************)
Tagged(tokens) ==
    LET tagged == pos_tag(tokens)
    IN [i \in 1..Len(tokens) |-> <<tagged[i][1], pos(tagged[i][2])>>]

(* The resolved category handed on as the hint. *)
LemmatizerHintCategory(p) == IF p = "" THEN NoHint ELSE p

(* The hint lemmatizer.lemmatize receives for a (word, p) pair. *)
LemmatizerHint(p) == NoHint

Lemmatized(text) ==
    [i \in 1..Len(text) |-> <<lemmatize(text[i][1], LemmatizerHint(text[i][2])), text[i][2]>>]

(* The category and the context of the retry. *)
RetryPos(p) == ADJ_SAT
RetryContext1(s1) == s1
(* The retry of sentence 2 run on sentence 2's own text. *)
RetryContext2Own(s1, s2) == s2

RetryContext2(s1, s2) == s1

Resolved(context, retryContext, word, p) ==
    IF lesk(context, word, p) # None
    THEN lesk(context, word, p)
    ELSE lesk(retryContext, word, RetryPos(p))

Call(side, index, kind, context, word, p) ==
    [side |-> side, index |-> index, kind |-> kind, context |-> context,
     word |-> word, pos |-> p, result |-> lesk(context, word, p)]

(* The lesk calls made for token number index of a side. *)
CallsFor(side, index, context, retryContext, word, p) ==
    {Call(side, index, "primary", context, word, p)}
    \cup IF lesk(context, word, p) # None THEN {}
         ELSE {Call(side, index, "retry", retryContext, word, RetryPos(p))}

Sensed1(s1, text) ==
    [i \in 1..Len(text) |->
        <<text[i][1], Resolved(s1, RetryContext1(s1), text[i][1], text[i][2])>>]

Sensed2(s1, s2, text) ==
    [i \in 1..Len(text) |->
        <<text[i][1], Resolved(s2, RetryContext2(s1, s2), text[i][1], text[i][2])>>]

Synsets(sensed) == [i \in 1..Len(sensed) |-> sensed[i][2]]

(* A None synset raising whether or not a cell is ever computed from it. *)
MatrixRaisesAnyNone(syn1, syn2) ==
    \/ \E row \in 1..Len(syn1) : syn1[row] = None
    \/ \E col \in 1..Len(syn2) : syn2[col] = None

(* np.zeros((len1, len2)) filled cell by cell. *)
MatrixRaises(syn1, syn2) ==
    \E row \in 1..Len(syn1), col \in 1..Len(syn2) :
        PathSimilarityRaises(syn1[row], syn2[col])

Matrix(syn1, syn2) ==
    [rows |-> Len(syn1), cols |-> Len(syn2),
     cell |-> [rc \in (1..Len(syn1)) \X (1..Len(syn2)) |->
                 LET sim == path_similarity(syn1[rc[1]], syn2[rc[2]])
                 IN IF sim # Undefined THEN sim ELSE Zero]]


(* Variants of the test: the longer side, ties included, never. *)
TakesRowsLonger(len1, len2) == len1 > len2
TakesRowsOrEqual(len1, len2) == len1 <= len2
TakesRowsNever(len1, len2) == FALSE

(* The test that selects the row maxima. *)
TakesRows(len1, len2) == len1 < len2

(* The score without the factor 2. *)
ScoreNotDoubled(sim_sum, len1, len2) == Norm(sim_sum[1], sim_sum[2] * (len1 + len2))

Score(sim_sum, len1, len2) == Norm(2 * sim_sum[1], sim_sum[2] * (len1 + len2))

NoScore == Undefined

(* What the aggregation ends in: a score, or the exception it raises. *)
Aggregated(m, len1, len2) ==
    IF TakesRows(len1, len2)
    THEN IF RowMaxRaises(m)
         THEN [raised |-> "ValueError", score |-> NoScore, branch |-> "rows"]
         ELSE IF len1 + len2 = 0
         THEN [raised |-> "ZeroDivisionError", score |-> NoScore, branch |-> "rows"]
         ELSE [raised |-> "", score |-> Score(sum(RowMax(m)), len1, len2), branch |-> "rows"]
    ELSE IF ColMaxRaises(m)
         THEN [raised |-> "ValueError", score |-> NoScore, branch |-> "columns"]
         ELSE IF len1 + len2 = 0
         THEN [raised |-> "ZeroDivisionError", score |-> NoScore, branch |-> "columns"]
         ELSE [raised |-> "", score |-> Score(sum(ColMax(m)), len1, len2), branch |-> "columns"]

(* sentsem(a, b) as one function: the outcome of a whole call. *)
SentSem(a, b) ==
    LET s1 == lower(a)
        s2 == lower(b)
        t1 == Lemmatized(Tagged(RemoveStopwords(tokenize(s1))))
        t2 == Lemmatized(Tagged(RemoveStopwords(tokenize(s2))))
        syn1 == Synsets(Sensed1(s1, t1))
        syn2 == Synsets(Sensed2(s1, s2, t2))
    IN IF MatrixRaises(syn1, syn2)
       THEN [raised |-> "AttributeError", score |-> NoScore, branch |-> ""]
       ELSE Aggregated(Matrix(syn1, syn2), Len(syn1), Len(syn2))

(***************************************************************************)
(* The state of one call of sentsem.                                        *)
(***************************************************************************)
VARIABLES
    arg1, arg2,         \* the sentences as the caller passed them
    sent1, sent2,       \* the local names sent1, sent2
    tokens1, tokens2,
    text1, text2,
    sensed1, sensed2,
    sim_matrix,
    sim_sum_branch,     \* which maxima were summed: "rows", "columns" or ""
    returned,           \* the value returned, NoScore while there is none
    raised,             \* the exception that ended the call, "" while there is none
    lemmatizeCalls,     \* the calls made to lemmatizer.lemmatize
    leskCalls,          \* the calls made to lesk
    pc

vars == <<arg1, arg2, sent1, sent2, tokens1, tokens2, text1, text2, sensed1,
          sensed2, sim_matrix, sim_sum_branch, returned, raised,
          lemmatizeCalls, leskCalls, pc>>

EmptyMatrix == [rows |-> 0, cols |-> 0, cell |-> [rc \in {} |-> Zero]]

Init ==
    /\ arg1 \in Sentences
    /\ arg2 \in Sentences
    /\ sent1 = arg1
    /\ sent2 = arg2
    /\ tokens1 = <<>>
    /\ tokens2 = <<>>
    /\ text1 = <<>>
    /\ text2 = <<>>
    /\ sensed1 = <<>>
    /\ sensed2 = <<>>
    /\ sim_matrix = EmptyMatrix
    /\ sim_sum_branch = ""
    /\ returned = NoScore
    /\ raised = ""
    /\ lemmatizeCalls = {}
    /\ leskCalls = {}
    /\ pc = "step1"

(* Step 1: sent = sent.lower() *)
Step1 ==
    /\ pc = "step1"
    /\ sent1' = lower(sent1)
    /\ sent2' = lower(sent2)
    /\ pc' = "step2"
    /\ UNCHANGED <<arg1, arg2, tokens1, tokens2, text1, text2, sensed1, sensed2,
                   sim_matrix, sim_sum_branch, returned, raised,
                   lemmatizeCalls, leskCalls>>

(* Step 2: tokenization *)
Step2 ==
    /\ pc = "step2"
    /\ tokens1' = tokenize(sent1)
    /\ tokens2' = tokenize(sent2)
    /\ pc' = "step3"
    /\ UNCHANGED <<arg1, arg2, sent1, sent2, text1, text2, sensed1, sensed2,
                   sim_matrix, sim_sum_branch, returned, raised,
                   lemmatizeCalls, leskCalls>>

(* Step 3: stopword removal *)
Step3 ==
    /\ pc = "step3"
    /\ tokens1' = RemoveStopwords(tokens1)
    /\ tokens2' = RemoveStopwords(tokens2)
    /\ pc' = "step4"
    /\ UNCHANGED <<arg1, arg2, sent1, sent2, text1, text2, sensed1, sensed2,
                   sim_matrix, sim_sum_branch, returned, raised,
                   lemmatizeCalls, leskCalls>>

(* Step 4: part of speech tagging *)
Step4 ==
    /\ pc = "step4"
    /\ text1' = Tagged(tokens1)
    /\ text2' = Tagged(tokens2)
    /\ pc' = "step5"
    /\ UNCHANGED <<arg1, arg2, sent1, sent2, tokens1, tokens2, sensed1, sensed2,
                   sim_matrix, sim_sum_branch, returned, raised,
                   lemmatizeCalls, leskCalls>>

LemmatizeCall(side, word, p) ==
    [side |-> side, word |-> word, category |-> p, hint |-> LemmatizerHint(p),
     result |-> lemmatize(word, LemmatizerHint(p))]

(* Step 5: lemmatization *)
Step5 ==
    /\ pc = "step5"
    /\ text1' = Lemmatized(text1)
    /\ text2' = Lemmatized(text2)
    /\ lemmatizeCalls' =
          { LemmatizeCall(1, text1[i][1], text1[i][2]) : i \in DOMAIN text1 }
          \cup { LemmatizeCall(2, text2[i][1], text2[i][2]) : i \in DOMAIN text2 }
    /\ pc' = "step6"
    /\ UNCHANGED <<arg1, arg2, sent1, sent2, tokens1, tokens2, sensed1, sensed2,
                   sim_matrix, sim_sum_branch, returned, raised, leskCalls>>

(* Step 6: word sense disambiguation *)
Step6 ==
    /\ pc = "step6"
    /\ sensed1' = Sensed1(sent1, text1)
    /\ sensed2' = Sensed2(sent1, sent2, text2)
    /\ leskCalls' =
          UNION { CallsFor(1, i, sent1, RetryContext1(sent1), text1[i][1], text1[i][2]) :
                    i \in DOMAIN text1 }
          \cup UNION { CallsFor(2, i, sent2, RetryContext2(sent1, sent2), text2[i][1], text2[i][2]) :
                         i \in DOMAIN text2 }
    /\ pc' = "step7"
    /\ UNCHANGED <<arg1, arg2, sent1, sent2, tokens1, tokens2, text1, text2,
                   sim_matrix, sim_sum_branch, returned, raised, lemmatizeCalls>>

(* Steps 7 and 8: the similarity matrix *)
Step7 ==
    /\ pc = "step7"
    /\ IF MatrixRaises(Synsets(sensed1), Synsets(sensed2))
       THEN /\ raised' = "AttributeError"
            /\ pc' = "raised"
            /\ UNCHANGED sim_matrix
       ELSE /\ sim_matrix' = Matrix(Synsets(sensed1), Synsets(sensed2))
            /\ pc' = "step9"
            /\ UNCHANGED raised
    /\ UNCHANGED <<arg1, arg2, sent1, sent2, tokens1, tokens2, text1, text2,
                   sensed1, sensed2, sim_sum_branch, returned,
                   lemmatizeCalls, leskCalls>>

(* Steps 9 and 10: the sum of the maxima and the score *)
Step9 ==
    /\ pc = "step9"
    /\ LET out == Aggregated(sim_matrix, Len(sensed1), Len(sensed2))
       IN /\ sim_sum_branch' = out.branch
          /\ returned' = out.score
          /\ raised' = out.raised
          /\ pc' = IF out.raised = "" THEN "returned" ELSE "raised"
    /\ UNCHANGED <<arg1, arg2, sent1, sent2, tokens1, tokens2, text1, text2,
                   sensed1, sensed2, sim_matrix, lemmatizeCalls, leskCalls>>

Next ==
    \/ Step1
    \/ Step2
    \/ Step3
    \/ Step4
    \/ Step5
    \/ Step6
    \/ Step7
    \/ Step9

Spec == Init /\ [][Next]_vars

(***************************************************************************)
(* Properties.                                                              *)
(***************************************************************************)
Ended == pc \in {"returned", "raised"}
len1 == Len(sensed1)
len2 == Len(sensed2)
NullSenses(sensed) == { i \in DOMAIN sensed : sensed[i][2] = None }
AllResolved == NullSenses(sensed1) = {} /\ NullSenses(sensed2) = {}
NoRetry == \A c \in leskCalls : c.kind = "primary"
HasUpper(s) == \E i \in DOMAIN s : s[i] \in RangeOf(UpperAlpha)

(* The maxima of the matrix, from its cells. *)
IsMaxOf(x, cells) == x \in cells /\ \A y \in cells : FLeq(y, x)
RowCells(i) == { sim_matrix.cell[<<i, j>>] : j \in 1..sim_matrix.cols }
ColCells(j) == { sim_matrix.cell[<<i, j>>] : i \in 1..sim_matrix.rows }
RECURSIVE SumOfRowMaxima(_)
SumOfRowMaxima(n) ==
    IF n = 0 THEN Zero
    ELSE FAdd(SumOfRowMaxima(n - 1), CHOOSE x \in RowCells(n) : IsMaxOf(x, RowCells(n)))
RECURSIVE SumOfColMaxima(_)
SumOfColMaxima(n) ==
    IF n = 0 THEN Zero
    ELSE FAdd(SumOfColMaxima(n - 1), CHOOSE x \in ColCells(n) : IsMaxOf(x, ColCells(n)))

(* C1: any score sentsem returns lies in [0, 1]. *)
ScoreWithinBounds ==
    pc = "returned" =>
        /\ returned[2] > 0
        /\ 0 <= returned[1]
        /\ returned[1] <= returned[2]

(* C1 witness: a call over two-token sentences with an undefined similarity
   in the matrix returns the largest score, 1. *)
ScoreWithinBoundsWitness ==
    /\ pc = "returned"
    /\ returned = <<1, 1>>
    /\ len1 = 2
    /\ \E rc \in DOMAIN sim_matrix.cell : sim_matrix.cell[rc] = Zero

(* C2: when both sentences reduce to zero tokens, sentsem returns 0.0 and
   raises nothing. *)
EmptyReturnsSentinel ==
    (Ended /\ tokens1 = <<>> /\ tokens2 = <<>>) =>
        (pc = "returned" /\ raised = "" /\ returned = Zero)

(* C3: a token whose sense is None does not stop sentsem from returning a
   score; the matrix is built over the usable senses only and the token is
   still counted in len1 / len2. *)
NullSenseDegradesGracefully ==
    (Ended /\ ~AllResolved) =>
        /\ pc = "returned"
        /\ sim_matrix.rows = len1 - Cardinality(NullSenses(sensed1))
        /\ sim_matrix.cols = len2 - Cardinality(NullSenses(sensed2))
        /\ len1 = Len(tokens1)
        /\ len2 = Len(tokens2)

(* C4 as stated: sentsem(s, s) returns exactly 1.0 whenever every surviving
   token resolves, a sentence without surviving tokens included. *)
IdentityScoresOneAlways ==
    (Ended /\ arg1 = arg2 /\ AllResolved) =>
        (pc = "returned" /\ returned = <<1, 1>>)

(* C4 amended: sentsem(s, s) returns exactly 1.0 whenever s has at least one
   surviving token and every surviving token resolves. *)
IdentityScoresOne ==
    (Ended /\ arg1 = arg2 /\ AllResolved /\ len1 >= 1) =>
        (pc = "returned" /\ returned = <<1, 1>>)

(* C4 witness: sentsem(s, s) has returned for an s whose tokens all resolve,
   one of them through the retry. *)
IdentityScoresOneWitness ==
    /\ pc = "returned"
    /\ arg1 = arg2
    /\ AllResolved
    /\ len1 >= 1
    /\ \E c \in leskCalls : c.kind = "retry"

(* C5 as stated: when no retry is taken, sentsem(a, b) = sentsem(b, a) for
   all inputs, pairs of equal token count included. *)
SymmetricAlways ==
    (pc = "returned" /\ NoRetry) =>
        LET swapped == SentSem(arg2, arg1)
        IN swapped.raised = "" /\ swapped.score = returned

(* C5 amended: when no retry is taken, sentsem(a, b) = sentsem(b, a) for all
   inputs whose two token lists differ in length. *)
SymmetricOnUnequalLengths ==
    (pc = "returned" /\ NoRetry /\ len1 # len2) =>
        LET swapped == SentSem(arg2, arg1)
        IN swapped.raised = "" /\ swapped.score = returned

(* C5 witness: a call without retry over token lists of lengths 1 and 2 has
   returned a score other than 0. *)
SymmetricOnUnequalLengthsWitness ==
    /\ pc = "returned"
    /\ NoRetry
    /\ len1 = 1
    /\ len2 = 2
    /\ returned # Zero
    /\ arg1 # arg2

(* C6: when exactly one sentence reduces to zero tokens, sentsem returns 0.0
   without error, in either order, whether or not the other sentence's tokens
   resolve. *)
OneSideEmptyReturnsZero ==
    (Ended /\ (Len(tokens1) = 0) # (Len(tokens2) = 0)) =>
        (pc = "returned" /\ raised = "" /\ returned = Zero)

(* C6 witness: a stopword-only first sentence against a sentence with an
   unresolved token has returned. *)
OneSideEmptyReturnsZeroWitness ==
    /\ pc = "returned"
    /\ arg1 # <<>>
    /\ len1 = 0
    /\ len2 >= 1
    /\ NullSenses(sensed2) # {}

(* C7: the row maxima are summed exactly when len1 < len2, the column maxima
   when len1 >= len2, and the score is 2 * sum / (len1 + len2). *)
BranchAndScore ==
    /\ sim_sum_branch # "" =>
          /\ (sim_sum_branch = "rows") = (len1 < len2)
          /\ (sim_sum_branch = "columns") = (len1 >= len2)
    /\ pc = "returned" =>
          LET total == IF sim_sum_branch = "rows"
                       THEN SumOfRowMaxima(sim_matrix.rows)
                       ELSE SumOfColMaxima(sim_matrix.cols)
          IN /\ sim_sum_branch \in {"rows", "columns"}
             /\ returned[1] * total[2] * (len1 + len2) = 2 * total[1] * returned[2]

(* C7 witness: a tie of two tokens each has returned a score other than 0 from
   the column maxima, the row maxima summing to something else. *)
BranchAndScoreWitness ==
    /\ pc = "returned"
    /\ len1 = 2
    /\ len2 = 2
    /\ sim_sum_branch = "columns"
    /\ returned # Zero
    /\ SumOfRowMaxima(sim_matrix.rows) # SumOfColMaxima(sim_matrix.cols)

(* C8: a retry is issued for a token only when its primary call yields no
   sense; it always asks for the satellite adjective category; sentence 2's
   retry passes sentence 1's text while its primary call passes sentence 2's
   text; both calls of sentence 1 pass sentence 1's text. *)
RetryDiscipline ==
    pc \notin {"step1", "step2", "step3", "step4", "step5", "step6"} =>
        /\ \A i \in DOMAIN text1 :
              \E c \in leskCalls :
                  /\ c.side = 1 /\ c.index = i /\ c.kind = "primary"
                  /\ c.context = sent1 /\ c.word = text1[i][1] /\ c.pos = text1[i][2]
        /\ \A i \in DOMAIN text2 :
              \E c \in leskCalls :
                  /\ c.side = 2 /\ c.index = i /\ c.kind = "primary"
                  /\ c.context = sent2 /\ c.word = text2[i][1] /\ c.pos = text2[i][2]
        /\ \A c \in leskCalls :
              /\ c.kind = "primary" => c.context = (IF c.side = 1 THEN sent1 ELSE sent2)
              /\ c.kind = "retry" =>
                    /\ c.pos = ADJ_SAT
                    /\ c.context = sent1
                    /\ \E q \in leskCalls :
                          /\ q.side = c.side /\ q.index = c.index
                          /\ q.kind = "primary" /\ q.word = c.word
                          /\ q.result = None
              /\ (c.kind = "primary" /\ c.result = None) =>
                    \E r \in leskCalls :
                        r.side = c.side /\ r.index = c.index /\ r.kind = "retry"

(* C8 witness: sentence 2 has a token of a category other than adjective whose
   retry ran, the two sentences differing. *)
RetryDisciplineWitness ==
    /\ pc = "step7"
    /\ sent1 # sent2
    /\ \E c \in leskCalls :
          /\ c.side = 2
          /\ c.kind = "retry"
          /\ text2[c.index][2] # ADJ

(* C9 as stated: a token of category noun, verb, adjective or adverb is
   lemmatized with that category as the hint; only a token of unknown category
   is lemmatized without a hint. *)
LemmatizedWithCategory ==
    \A c \in lemmatizeCalls :
        /\ c.category \in {NOUN, VERB, ADJ, ADV} => c.hint = c.category
        /\ c.category = "" => c.hint = NoHint

(* C9 amended: every token is lemmatized without a category hint, whatever
   category the tag mapping resolved for it, so the lemmatizer's default
   (noun) applies; the category is carried along unchanged. *)
LemmatizedWithoutHint ==
    /\ \A c \in lemmatizeCalls : c.hint = NoHint
    /\ pc \notin {"step1", "step2", "step3", "step4", "step5"} =>
          /\ Len(text1) = Len(tokens1)
          /\ Len(text2) = Len(tokens2)
          /\ \A i \in DOMAIN text1 :
                /\ text1[i][2] = pos(TagOf(tokens1[i]))
                /\ text1[i][1] \in morphy(tokens1[i], NOUN) \cup {tokens1[i]}
          /\ \A i \in DOMAIN text2 :
                /\ text2[i][2] = pos(TagOf(tokens2[i]))
                /\ text2[i][1] \in morphy(tokens2[i], NOUN) \cup {tokens2[i]}

(* C9 witness: a verb has been lemmatized, and its lemma is not the one the
   verb hint gives. *)
LemmatizedWithoutHintWitness ==
    /\ pc = "step6"
    /\ \E c \in lemmatizeCalls :
          /\ c.category = VERB
          /\ c.result # lemmatize(c.word, VERB)

(* C10 as stated: every disambiguation call receives the sentence text exactly
   as the caller passed it. *)
ContextIsOriginalText ==
    \A c \in leskCalls :
        c.context = (IF c.side = 2 /\ c.kind = "primary" THEN arg2 ELSE arg1)

(* C10 amended: every disambiguation call receives the lowercased sentence
   text: the caller's text with each upper-case character replaced by its
   lower-case form. *)
ContextIsLowercasedText ==
    \A c \in leskCalls :
        LET arg == IF c.side = 2 /\ c.kind = "primary" THEN arg2 ELSE arg1
        IN /\ Len(c.context) = Len(arg)
           /\ ~HasUpper(c.context)
           /\ \A i \in DOMAIN arg :
                 \/ c.context[i] = arg[i]
                 \/ \E k \in DOMAIN UpperAlpha :
                       arg[i] = UpperAlpha[k] /\ c.context[i] = LowerAlpha[k]

(* C10 witness: a disambiguation call has been made for a sentence that has
   an upper-case character. *)
ContextIsLowercasedTextWitness ==
    \E c \in leskCalls :
        /\ c.side = 1
        /\ c.kind = "primary"
        /\ HasUpper(arg1)

====
